---- MODULE Spec2Model ----
(***************************************************************************)
(* cog: a terminal chat client.  The session controller (model.Update in   *)
(* src/main.go) reconciles key events, one asynchronous completion request *)
(* and the SQLite conversation store (src/database.go).                    *)
(*                                                                         *)
(* Five specifications are defined over the same operators:               *)
(*   Spec        the session: initialModel, then one action per event that *)
(*               model.Update handles;                                     *)
(*   SpecStore   the store API called directly (SaveConversation,          *)
(*               DeleteConversation, LoadConversations) on bounded inputs; *)
(*   SpecTitle   the title derivation of the send branch on bounded        *)
(*               inputs;                                                   *)
(*   SpecLive    the session with responses that are eventually delivered; *)
(*   SpecRequest the request of sendMessage on bounded inputs.             *)
(***************************************************************************)
EXTENDS Integers, Sequences, FiniteSets, TLC

VARIABLES
    conversations,  \* model.conversations: sequence of Conversation
    currentConvID,  \* model.currentConvID
    convList,       \* model.convList: [items: ids of the list items, cursor: index of the selected item]
    loading,        \* model.loading
    focus,          \* model.focus: "sidebar" or "chat"
    err,            \* model.err: the error recorded and not rendered yet
    viewportErr,    \* the error line of the viewport content set by the last updateViewport
    inflight,       \* the tea.Cmds returned by sendMessage that have not delivered their responseMsg yet
    running,        \* FALSE once Update has returned tea.Quit
    db,             \* the SQLite database: [conversations: set of rows, messages: sequence of rows in rowid order]
    now,            \* wall clock at the resolution of time.Now(): the value the next reading returns
    sec,            \* wall clock in whole seconds (time.Now().Unix())
    last,           \* history: the last event that Update handled itself, and its outcome
    writeFailed,    \* history: a SaveConversation has returned an error
    call            \* history (SpecStore): the last store call and its argument

vars == <<conversations, currentConvID, convList, loading, focus, err, viewportErr,
          inflight, running, db, now, sec, last, writeFailed, call>>

(***************************************************************************)
(* Bounds of the model.                                                    *)
(***************************************************************************)
MaxSec == 1        \* seconds the clock advances
MaxNow == 3        \* the last instant at which a conversation is created or a message sent

NoFail == -1
NoErr == "none"

(***************************************************************************)
(* Strings.  TLC evaluates Len, SubSeq and \o on strings; one character    *)
(* stands for one rune.                                                    *)
(***************************************************************************)
IsSpace(c) == c \in {" ", "\t", "\n", "\r"}

RECURSIVE TrimLeft(_)
TrimLeft(s) ==
    IF Len(s) > 0 /\ IsSpace(SubSeq(s, 1, 1))
    THEN TrimLeft(SubSeq(s, 2, Len(s)))
    ELSE s

RECURSIVE TrimRight(_)
TrimRight(s) ==
    IF Len(s) > 0 /\ IsSpace(SubSeq(s, Len(s), Len(s)))
    THEN TrimRight(SubSeq(s, 1, Len(s) - 1))
    ELSE s

TrimSpace(s) == TrimRight(TrimLeft(s))

TitleMax == 30
TitleKeep == 27

\* The strings of TLC hold ASCII only: "~" stands for a rune that UTF-8
\* encodes in two bytes.
Utf8Len(c) == IF c = "~" THEN 2 ELSE 1

\* len(s) of Go: the bytes of the string.
RECURSIVE ByteLen(_)
ByteLen(str) ==
    IF Len(str) = 0 THEN 0
    ELSE Utf8Len(SubSeq(str, 1, 1)) + ByteLen(SubSeq(str, 2, Len(str)))

\* A title whose threshold is compared with len(title), the bytes.
DeriveTitle_Bytes(content) ==
    IF ByteLen(content) > TitleMax
    THEN SubSeq(content, 1, TitleKeep) \o "..."
    ELSE content

\* The title derived from the first message.
DeriveTitle(content) ==
    IF Len(content) > TitleMax
    THEN SubSeq(content, 1, TitleKeep) \o "..."
    ELSE content

(***************************************************************************)
(* Inputs of the events.                                                   *)
(***************************************************************************)
LongInput == "0123456789012345678901234567890"
Inputs == {" hi\n", "  ", LongInput}
Replies == {"ok"}
ResponseMsgs ==
    {[content |-> c, err |-> NoErr] : c \in Replies}
        \cup {[content |-> "", err |-> e] : e \in {"transport", "no response from API"}}

SystemPrompt == "You are a helpful AI assistant. Provide clear, concise, and helpful responses."

(***************************************************************************)
(* The store (src/database.go).  The conversations table is a set of rows  *)
(* keyed by id; the messages table is the sequence of its rows in rowid    *)
(* order (AUTOINCREMENT: a new row gets the largest rowid).  The column    *)
(* updated_at is written by SaveConversation and read by nothing           *)
(* (LoadConversations scans it into a local that is dropped): it is left   *)
(* out of the rows.                                                        *)
(***************************************************************************)
EmptyStore == [conversations |-> {}, messages |-> <<>>]

ConvRow(conv) == [id |-> conv.ID, name |-> conv.Name, created_at |-> conv.Created]

MsgRow(id, msg) ==
    [conversation_id |-> id, role |-> msg.Role, content |-> msg.Content, created_at |-> msg.Time]

\* The message rows stored for an id, in rowid order.
MessageRowsOf(store, id) ==
    LET Mine(r) == r.conversation_id = id
    IN SelectSeq(store.messages, Mine)

\* The rows a conversation's messages are stored as.
RowsOf(conv) == [k \in 1 .. Len(conv.Messages) |-> MsgRow(conv.ID, conv.Messages[k])]

\* INSERT OR REPLACE INTO conversations: the row holding the same primary key is replaced.
TxUpsert(store, conv) ==
    [store EXCEPT !.conversations = {r \in @ : r.id # conv.ID} \cup {ConvRow(conv)}]

\* A save that leaves the messages already stored in place.
TxDeleteMessages_Skipped(store, id) == store

\* DELETE FROM messages WHERE conversation_id = ?
TxDeleteMessages(store, id) ==
    LET Keep(r) == r.conversation_id # id
    IN [store EXCEPT !.messages = SelectSeq(@, Keep)]

\* INSERT INTO messages, for the first k messages of msgs
RECURSIVE TxInsertMessages(_, _, _, _)
TxInsertMessages(store, id, msgs, k) ==
    IF k = 0
    THEN store
    ELSE LET before == TxInsertMessages(store, id, msgs, k - 1)
         IN [before EXCEPT !.messages = Append(@, MsgRow(id, msgs[k]))]

\* A save that writes a diff: the upsert, then the insert of the newest
\* message only, next to the rows already stored.
TxSteps_Diff(store, conv, k) ==
    IF k = 0 THEN store
    ELSE IF k <= 2 \/ Len(conv.Messages) = 0 THEN TxUpsert(store, conv)
    ELSE [TxUpsert(store, conv) EXCEPT
            !.messages = Append(@, MsgRow(conv.ID, conv.Messages[Len(conv.Messages)]))]

\* What the transaction of SaveConversation has written after its first k
\* statements: the upsert, the delete, then one insert per message.
TxSteps(store, conv, k) ==
    IF k = 0 THEN store
    ELSE IF k = 1 THEN TxUpsert(store, conv)
    ELSE TxInsertMessages(TxDeleteMessages(TxUpsert(store, conv), conv.ID),
                          conv.ID, conv.Messages, k - 2)

\* The steps of SaveConversation that can return an error: 0 is Begin, 1 the
\* upsert, 2 the delete, 2 + j the insert of message j, Len + 3 the Commit.
SaveFailures(conv) == 0 .. (Len(conv.Messages) + 3)

SaveOutcomes(conv) == {NoFail} \cup SaveFailures(conv)

\* A SaveConversation that runs its statements outside a transaction: the
\* statements before the failing one stay written.
SaveConversation_NoTx(store, conv, failAt) ==
    IF failAt = NoFail
    THEN TxSteps(store, conv, Len(conv.Messages) + 2)
    ELSE TxSteps(store, conv, IF failAt = 0 THEN 0 ELSE failAt - 1)

\* SaveConversation: every statement runs in one transaction; an error at
\* step failAt returns through the deferred Rollback, which discards what
\* the transaction wrote.
SaveConversation(store, conv, failAt) ==
    IF failAt = NoFail
    THEN TxSteps(store, conv, Len(conv.Messages) + 2)
    ELSE store

Injective(f) == \A i, j \in DOMAIN f : f[i] = f[j] => i = j

\* ORDER BY created_at DESC.
OrderedByCreatedAt_Desc(rows) ==
    LET n == Len(rows)
        perms == {p \in [1 .. n -> 1 .. n] :
                    /\ Injective(p)
                    /\ \A i, j \in 1 .. n :
                          i < j => rows[p[i]].created_at >= rows[p[j]].created_at}
    IN {[i \in 1 .. n |-> rows[p[i]]] : p \in perms}

\* The orders in which ORDER BY created_at ASC can return the rows of a
\* sequence: SQL leaves the order of rows with equal keys open.
OrderedByCreatedAt(rows) ==
    LET n == Len(rows)
        perms == {p \in [1 .. n -> 1 .. n] :
                    /\ Injective(p)
                    /\ \A i, j \in 1 .. n :
                          i < j => rows[p[i]].created_at <= rows[p[j]].created_at}
    IN {[i \in 1 .. n |-> rows[p[i]]] : p \in perms}

\* loadMessages: the possible results, each a sequence of Message.
loadMessages(store, conversationID) ==
    LET Mine(r) == r.conversation_id = conversationID
        rows == SelectSeq(store.messages, Mine)
    IN {[i \in 1 .. Len(rows) |->
            [Role |-> o[i].role, Content |-> o[i].content, Time |-> o[i].created_at]] :
        o \in OrderedByCreatedAt(rows)}

\* The arrangements of the conversations table ORDER BY created_at ASC.
ConversationRows(store) ==
    LET S == store.conversations
        n == Cardinality(S)
    IN {s \in [1 .. n -> S] :
          /\ Injective(s)
          /\ \A i, j \in 1 .. n : i < j => s[i].created_at <= s[j].created_at}

\* LoadConversations: the possible results, each a sequence of Conversation.
LoadConversations(store) ==
    UNION {
        LET n == Len(rows)
            choices == UNION {loadMessages(store, rows[i].id) : i \in 1 .. n}
            picks == {m \in [1 .. n -> choices] :
                        \A i \in 1 .. n : m[i] \in loadMessages(store, rows[i].id)}
        IN {[i \in 1 .. n |->
                [ID |-> rows[i].id, Name |-> rows[i].name,
                 Messages |-> m[i], Created |-> rows[i].created_at]] : m \in picks}
        : rows \in ConversationRows(store)}

\* DeleteConversation: DELETE FROM conversations WHERE id = ?.  The rows of
\* messages go with it only when the connection enforces foreign keys
\* (ON DELETE CASCADE); NewDatabase opens the file without setting it.
DeleteConversation(store, conversationID, foreignKeys) ==
    LET Keep(r) == r.conversation_id # conversationID
    IN [conversations |-> {r \in store.conversations : r.id # conversationID},
        messages |-> IF foreignKeys THEN SelectSeq(store.messages, Keep)
                     ELSE store.messages]

(***************************************************************************)
(* The session (src/main.go).                                              *)
(*                                                                         *)
(* Time.  Every reading of time.Now() that stamps a conversation or a      *)
(* message returns `now` and is followed by now + 1: successive events     *)
(* read strictly increasing instants.  generateConvID keeps the whole      *)
(* seconds of the reading only, so `sec` advances on its own (Tick)        *)
(* between any two events or not at all.                                   *)
(*                                                                         *)
(* The text of the input box (m.textarea.Value(), a bubbles component) is  *)
(* the input of the Enter handler.                                         *)
(***************************************************************************)
\* unix is time.Now().Unix(), t the instant time.Now() returns.
generateConvID(unix) == "conv_" \o ToString(unix)

newConversation(title, t, unix) ==
    [ID |-> generateConvID(unix), Name |-> title, Messages |-> <<>>, Created |-> t]

\* The index of the first conversation holding the id, 0 when there is none:
\* the loops `for i := range m.conversations { if ...ID == m.currentConvID`.
IndexOfID(convs, id) ==
    IF \E i \in 1 .. Len(convs) : convs[i].ID = id
    THEN CHOOSE i \in 1 .. Len(convs) :
            /\ convs[i].ID = id
            /\ \A j \in 1 .. (i - 1) : convs[j].ID # id
    ELSE 0

getCurrentConversation(convs, id) == IndexOfID(convs, id)

\* SetItems, then Select(i) for the first conversation holding the current id.
updateConversationList(convs, id, list) ==
    LET i == IndexOfID(convs, id)
    IN [items |-> [k \in 1 .. Len(convs) |-> convs[k].ID],
        cursor |-> IF i > 0 THEN i ELSE list.cursor]

\* A role handed to the provider as it is stored.
ProviderRole_AsStored(role) == role

\* The role vocabulary of the provider.
ProviderRole(role) == IF role = "user" THEN "user" ELSE "assistant"

\* A request that carries the content just typed and no history.
sendMessage_LatestOnly(convs, id) ==
    LET i == getCurrentConversation(convs, id)
        n == IF i = 0 THEN 0 ELSE Len(convs[i].Messages)
    IN [convID |-> id,
        messages |-> <<[Role |-> "system", Content |-> SystemPrompt]>>
                        \o (IF n = 0 THEN <<>>
                            ELSE <<[Role |-> "user", Content |-> convs[i].Messages[n].Content]>>)]

\* The request sendMessage builds from the model value it captured: the
\* receiver is a copy of the model made when Update returns the command, so
\* its currentConvID is the one of that moment, and its conversations are
\* the elements the registry held then.
sendMessage(convs, id) ==
    LET i == getCurrentConversation(convs, id)
        history == IF i = 0 THEN <<>>
                   ELSE [k \in 1 .. Len(convs[i].Messages) |->
                            [Role |-> ProviderRole(convs[i].Messages[k].Role),
                             Content |-> convs[i].Messages[k].Content]]
    IN [convID |-> id,
        messages |-> <<[Role |-> "system", Content |-> SystemPrompt]>> \o history]

\* History of an event: stale tells that, when the event began, the store
\* did not hold the messages of the conversation the event then saved;
\* cleared tells that the handler left the input box empty.
Event(ev, e, save, convID) ==
    [ev |-> ev, err |-> e, save |-> save, convID |-> convID, stale |-> FALSE,
     cleared |-> FALSE]

\* An input box that keeps its value when a message is sent.
textareaReset_Keeps(value) == value

\* m.textarea.Reset(): the value of the input box afterwards.
textareaReset(value) == ""

Lagging(store, conv) == MessageRowsOf(store, conv.ID) # RowsOf(conv)

SaveResult(failAt) == IF failAt = NoFail THEN "ok" ELSE "failed"

\* m.err after `if err := m.db.SaveConversation(...); err != nil { m.err = ... }`.
SaveErr(e, failAt) == IF failAt # NoFail THEN "failed to save conversation" ELSE e

\* An updateViewport that shows m.err and leaves it set.
updateViewport_KeepsErr(e) == [shown |-> e, err |-> e]

\* updateViewport: the error line of the content when m.err is set, and
\* m.err after the call.
updateViewport(e) == [shown |-> e, err |-> NoErr]

\* The registry after SaveConversation returned with an error and the
\* registry is put back as it was before the event.
AfterSave_RollsBack(convs, before, failAt) == IF failAt = NoFail THEN convs ELSE before

\* The registry after SaveConversation returned: the error branch sets
\* m.err and nothing else.
AfterSave(convs, before, failAt) == convs

\* A responseMsg whose err is never looked at.
ResponseFailed_Never(msg) == FALSE

\* `if msg.err != nil`
ResponseFailed(msg) == msg.err # NoErr

\* Commands of a process that are delivered to the next one.
AbandonedAtExit_Kept(cmds) == cmds

\* The commands in flight when the process exits: their goroutines end with
\* it, and the model of the next process starts with none.
AbandonedAtExit(cmds) == <<>>

NoConv == [ID |-> "", Name |-> "", Messages |-> <<>>, Created |-> 0]
NoCall == [op |-> "none", id |-> "", conv |-> NoConv, failed |-> "", foreignKeys |-> FALSE]

\* A current conversation that is left unset.
FirstID_Unset(convs) == ""

\* A current conversation that is the last one loaded, the newest.
FirstID_Newest(convs) == IF Len(convs) > 0 THEN convs[Len(convs)].ID ELSE ""

\* "Set current conversation to the first one".
FirstID(convs) == IF Len(convs) > 0 THEN convs[1].ID ELSE ""

\* initialModel on the store content `store`: the conversations it loads,
\* or the default conversation when it loads none.
initialModel(store, loaded, failAt, t, unix) ==
    LET initialConv == newConversation("New Chat", t, unix)
        convs == IF Len(loaded) = 0 THEN <<initialConv>> ELSE loaded
    IN [conversations |-> convs,
        currentConvID |-> FirstID(convs),
        convList |-> [items |-> [k \in 1 .. Len(convs) |-> convs[k].ID], cursor |-> 1],
        db |-> IF Len(loaded) = 0 THEN SaveConversation(store, initialConv, failAt) ELSE store,
        now |-> IF Len(loaded) = 0 THEN t + 1 ELSE t]

Init ==
    /\ sec = 0
    /\ \E failAt \in SaveOutcomes(newConversation("New Chat", 0, 0)) :
          LET m == initialModel(EmptyStore, <<>>, failAt, 0, 0)
          IN /\ conversations = m.conversations
             /\ currentConvID = m.currentConvID
             /\ convList = m.convList
             /\ db = m.db
             /\ now = m.now
             /\ last = Event("Start", NoErr, SaveResult(failAt), m.currentConvID)
             /\ writeFailed = (failAt # NoFail)
    /\ loading = FALSE
    /\ focus = "chat"
    /\ err = NoErr
    /\ viewportErr = NoErr
    /\ inflight = <<>>
    /\ running = TRUE
    /\ call = NoCall

\* The bound on the readings of the clock; a response is always processed.
CanRead == now < MaxNow

\* A focus switch that drops the pending request.
Tab_CancelsPending ==
    /\ running
    /\ focus' = IF focus = "sidebar" THEN "chat" ELSE "sidebar"
    /\ loading' = FALSE
    /\ inflight' = <<>>
    /\ UNCHANGED <<conversations, currentConvID, convList, err, viewportErr,
                   running, db, now, sec, call, last, writeFailed>>

\* tea.KeyTab
Tab ==
    /\ running
    /\ focus' = IF focus = "sidebar" THEN "chat" ELSE "sidebar"
    /\ UNCHANGED <<conversations, currentConvID, convList, loading, err, viewportErr,
                   inflight, running, db, now, sec, call, last, writeFailed>>

\* tea.KeyCtrlN
CtrlN ==
    /\ running
    /\ CanRead
    /\ LET newConv == newConversation("New Chat", now, sec)
       IN \E failAt \in SaveOutcomes(newConv) :
            /\ conversations' = AfterSave(Append(conversations, newConv), conversations, failAt)
            /\ currentConvID' = newConv.ID
            /\ db' = SaveConversation(db, newConv, failAt)
            /\ convList' = updateConversationList(conversations', currentConvID', convList)
            /\ viewportErr' = updateViewport(SaveErr(err, failAt)).shown
            /\ err' = updateViewport(SaveErr(err, failAt)).err
            /\ last' = Event("CtrlN", NoErr, SaveResult(failAt), newConv.ID)
            /\ writeFailed' = (writeFailed \/ failAt # NoFail)
    /\ focus' = "chat"
    /\ now' = now + 1
    /\ UNCHANGED <<loading, inflight, running, sec, call>>

\* A selection that drops the pending request.
Select_CancelsPending ==
    /\ running
    /\ focus = "sidebar"
    /\ convList.cursor \in 1 .. Len(convList.items)
    /\ currentConvID' = convList.items[convList.cursor]
    /\ viewportErr' = updateViewport(err).shown
    /\ err' = updateViewport(err).err
    /\ focus' = "chat"
    /\ last' = Event("Select", NoErr, "none", currentConvID')
    /\ loading' = FALSE
    /\ inflight' = <<>>
    /\ UNCHANGED <<conversations, convList, running, db, now, sec, writeFailed, call>>

\* tea.KeyEnter with the sidebar focused: the selected item becomes current.
Select ==
    /\ running
    /\ focus = "sidebar"
    /\ convList.cursor \in 1 .. Len(convList.items)
    /\ currentConvID' = convList.items[convList.cursor]
    /\ viewportErr' = updateViewport(err).shown
    /\ err' = updateViewport(err).err
    /\ focus' = "chat"
    /\ last' = Event("Select", NoErr, "none", currentConvID')
    /\ UNCHANGED <<conversations, convList, loading, inflight, running, db, now, sec,
                   writeFailed, call>>

\* An append that places the user message before the earlier ones.
AppendUser_Prepends(convs, i, userMsg) ==
    [convs EXCEPT ![i].Messages = <<userMsg>> \o @,
                  ![i].Name = IF Len(convs[i].Messages) = 0
                              THEN DeriveTitle(userMsg.Content) ELSE @]

\* An append that derives the title from every user message.
AppendUser_AlwaysTitle(convs, i, userMsg) ==
    [convs EXCEPT ![i].Messages = Append(@, userMsg),
                  ![i].Name = DeriveTitle(userMsg.Content)]

\* The conversations after the user message is appended to the first
\* conversation holding the current id, its title derived when the message
\* is its first.
AppendUser(convs, i, userMsg) ==
    LET msgs == Append(convs[i].Messages, userMsg)
    IN [convs EXCEPT ![i].Messages = msgs,
                     ![i].Name = IF Len(msgs) = 1 THEN DeriveTitle(userMsg.Content) ELSE @]

\* The condition of the send branch that forgets the loading flag.
CanSubmit_IgnoresLoading(input) ==
    /\ focus = "chat"
    /\ TrimSpace(input) # ""

\* The condition of the send branch of tea.KeyEnter.
CanSubmit(input) ==
    /\ focus = "chat"
    /\ ~loading
    /\ TrimSpace(input) # ""

\* tea.KeyEnter with the chat focused, no request pending and a non-blank input.
Submit(input) ==
    /\ running
    /\ CanSubmit(input)
    /\ CanRead
    /\ LET userMsg == [Role |-> "user", Content |-> TrimSpace(input), Time |-> now]
           i == IndexOfID(conversations, currentConvID)
       IN IF i = 0
          THEN /\ UNCHANGED <<conversations, db, writeFailed>>
               /\ viewportErr' = updateViewport(err).shown
               /\ err' = updateViewport(err).err
               /\ last' = [Event("Submit", NoErr, "none", currentConvID)
                             EXCEPT !.cleared = (textareaReset(input) = "")]
          ELSE \E failAt \in SaveOutcomes(AppendUser(conversations, i, userMsg)[i]) :
                 /\ conversations' = AfterSave(AppendUser(conversations, i, userMsg),
                                               conversations, failAt)
                 /\ db' = SaveConversation(db, AppendUser(conversations, i, userMsg)[i], failAt)
                 /\ viewportErr' = updateViewport(SaveErr(err, failAt)).shown
                 /\ err' = updateViewport(SaveErr(err, failAt)).err
                 /\ last' = [Event("Submit", NoErr, SaveResult(failAt), currentConvID)
                               EXCEPT !.stale = Lagging(db, conversations[i]),
                                      !.cleared = (textareaReset(input) = "")]
                 /\ writeFailed' = (writeFailed \/ failAt # NoFail)
    /\ loading' = TRUE
    /\ convList' = updateConversationList(conversations', currentConvID, convList)
    /\ inflight' = Append(inflight, sendMessage(conversations', currentConvID))
    /\ now' = now + 1
    /\ UNCHANGED <<currentConvID, focus, running, sec, call>>

\* An Enter that is refused and dispatches a request all the same.
EnterIgnored_Sends(input) ==
    /\ running
    /\ focus = "chat"
    /\ ~CanSubmit(input)
    /\ last' = Event(IF TrimSpace(input) = "" THEN "EnterBlank" ELSE "EnterIgnored",
                     NoErr, "none", currentConvID)
    /\ inflight' = Append(inflight, sendMessage(conversations, currentConvID))
    /\ UNCHANGED <<conversations, currentConvID, convList, loading, focus, err, viewportErr,
                   running, db, now, sec, writeFailed, call>>

\* tea.KeyEnter with the chat focused that sends nothing: a request is
\* pending or the input is blank.  The key goes to the input box.
EnterIgnored(input) ==
    /\ running
    /\ focus = "chat"
    /\ ~CanSubmit(input)
    /\ last' = Event(IF TrimSpace(input) = "" THEN "EnterBlank" ELSE "EnterIgnored",
                     NoErr, "none", currentConvID)
    /\ UNCHANGED <<conversations, currentConvID, convList, loading, focus, err, viewportErr,
                   inflight, running, db, now, sec, writeFailed, call>>

\* A loading flag that an error response leaves set.
LoadingAfterResponse_ErrorKeeps(msg) == msg.err # NoErr

\* `m.loading = false`, the first statement of the responseMsg branch.
LoadingAfterResponse(msg) == FALSE

\* The sequence without its element k.
RemoveAt(seq, k) == SubSeq(seq, 1, k - 1) \o SubSeq(seq, k + 1, Len(seq))

\* responseMsg: the Cmd in flight at position k delivers msg.
Response(k, msg) ==
    /\ running
    /\ k \in 1 .. Len(inflight)
    /\ loading' = LoadingAfterResponse(msg)
    /\ inflight' = RemoveAt(inflight, k)
    /\ LET i == IndexOfID(conversations, currentConvID)
           assistantMsg == [Role |-> "assistant", Content |-> msg.content, Time |-> now]
       IN IF ResponseFailed(msg) \/ i = 0
          THEN LET e == IF ResponseFailed(msg) THEN msg.err ELSE err
               IN /\ UNCHANGED <<conversations, db, writeFailed>>
                  /\ viewportErr' = updateViewport(e).shown
                  /\ err' = updateViewport(e).err
                  /\ last' = Event("Response", msg.err, "none", inflight[k].convID)
          ELSE LET convs == [conversations EXCEPT ![i].Messages = Append(@, assistantMsg)]
               IN \E failAt \in SaveOutcomes(convs[i]) :
                    /\ conversations' = AfterSave(convs, conversations, failAt)
                    /\ db' = SaveConversation(db, convs[i], failAt)
                    /\ viewportErr' = updateViewport(SaveErr(err, failAt)).shown
                    /\ err' = updateViewport(SaveErr(err, failAt)).err
                    /\ last' = [Event("Response", msg.err, SaveResult(failAt),
                                        inflight[k].convID)
                                  EXCEPT !.stale = Lagging(db, conversations[i])]
                    /\ writeFailed' = (writeFailed \/ failAt # NoFail)
    /\ convList' = updateConversationList(conversations', currentConvID, convList)
    \* time.Now() is read for the assistant message only
    /\ now' = IF ResponseFailed(msg) THEN now ELSE now + 1
    /\ UNCHANGED <<currentConvID, focus, running, sec, call>>

\* A cursor key with the sidebar focused moves the selection of the list.
CursorUp ==
    /\ running
    /\ focus = "sidebar"
    /\ convList.cursor > 1
    /\ convList' = [convList EXCEPT !.cursor = @ - 1]
    /\ UNCHANGED <<conversations, currentConvID, loading, focus, err, viewportErr,
                   inflight, running, db, now, sec, call, last, writeFailed>>

CursorDown ==
    /\ running
    /\ focus = "sidebar"
    /\ convList.cursor < Len(convList.items)
    /\ convList' = [convList EXCEPT !.cursor = @ + 1]
    /\ UNCHANGED <<conversations, currentConvID, loading, focus, err, viewportErr,
                   inflight, running, db, now, sec, call, last, writeFailed>>

\* tea.WindowSizeMsg: the viewport is rendered again.
WindowSize ==
    /\ running
    /\ viewportErr # updateViewport(err).shown
    /\ viewportErr' = updateViewport(err).shown
    /\ err' = updateViewport(err).err
    /\ UNCHANGED <<conversations, currentConvID, convList, loading, focus,
                   inflight, running, db, now, sec, call, last, writeFailed>>

\* tea.KeyCtrlC, tea.KeyEsc: tea.Quit ends the event loop.
Quit ==
    /\ running
    /\ running' = FALSE
    /\ UNCHANGED <<conversations, currentConvID, convList, loading, focus, err, viewportErr,
                   inflight, db, now, sec, call, last, writeFailed>>

\* The program is started again on the store the last session left.
Restart ==
    /\ ~running
    /\ CanRead
    /\ \E loaded \in LoadConversations(db) :
         \E failAt \in SaveOutcomes(newConversation("New Chat", now, sec)) :
            LET m == initialModel(db, loaded, failAt, now, sec)
            IN /\ Len(loaded) > 0 => failAt = NoFail
               /\ conversations' = m.conversations
               /\ currentConvID' = m.currentConvID
               /\ convList' = m.convList
               /\ db' = m.db
               /\ now' = m.now
               /\ last' = Event("Start", NoErr,
                                IF Len(loaded) = 0 THEN SaveResult(failAt) ELSE "none",
                                m.currentConvID)
               /\ writeFailed' = (writeFailed \/ failAt # NoFail)
    /\ loading' = FALSE
    /\ focus' = "chat"
    /\ err' = NoErr
    /\ viewportErr' = NoErr
    /\ inflight' = AbandonedAtExit(inflight)
    /\ running' = TRUE
    /\ UNCHANGED <<sec, call>>

\* A second of wall clock passes.
Tick ==
    /\ sec < MaxSec
    /\ sec' = sec + 1
    /\ UNCHANGED <<conversations, currentConvID, convList, loading, focus, err, viewportErr,
                   inflight, running, db, now, last, writeFailed, call>>

Next ==
    \/ Tab
    \/ CtrlN
    \/ Select
    \/ \E input \in Inputs : Submit(input)
    \/ \E input \in Inputs : EnterIgnored(input)
    \/ \E k \in 1 .. Len(inflight), msg \in ResponseMsgs : Response(k, msg)
    \/ CursorUp
    \/ CursorDown
    \/ WindowSize
    \/ Quit
    \/ Restart
    \/ Tick

Spec == Init /\ [][Next]_vars

(***************************************************************************)
(* The store API called directly.  The conversations given to              *)
(* SaveConversation are any values of the type: the Time of a message is   *)
(* a wall-clock reading, which the type does not force to increase along   *)
(* the list.  `call` records the call just made: for a save, the id, the   *)
(* statement that failed, and the conversation when the save succeeded;    *)
(* for a delete, the id and the foreign-key setting of the connection.     *)
(***************************************************************************)
StoreMaxLen == 2    \* messages of a conversation given to SaveConversation

StoreIDs == {"a", "b"}
StoreTimes == {1, 2}
StoreMsgs ==
    {[Role |-> r.role, Content |-> r.content, Time |-> t] :
        r \in {[role |-> "user", content |-> "x"], [role |-> "assistant", content |-> "y"]},
        t \in StoreTimes}
StoreMsgSeqs == UNION {[1 .. n -> StoreMsgs] : n \in 0 .. StoreMaxLen}

\* Conversation "a" takes every bounded value, conversation "b" is the rest
\* of the store: one conversation of one message.
StoreConvs ==
    {[ID |-> "a", Name |-> "n", Messages |-> m, Created |-> 2] : m \in StoreMsgSeqs}
    \cup {[ID |-> "b", Name |-> "n",
           Messages |-> <<[Role |-> "user", Content |-> "x", Time |-> 1]>>, Created |-> 1]}

StoreInit ==
    /\ db = EmptyStore
    /\ call = NoCall
    /\ conversations = <<>>
    /\ currentConvID = ""
    /\ convList = [items |-> <<>>, cursor |-> 0]
    /\ loading = FALSE
    /\ focus = "chat"
    /\ err = NoErr
    /\ viewportErr = NoErr
    /\ inflight = <<>>
    /\ running = FALSE
    /\ now = 0
    /\ sec = 0
    /\ last = Event("none", NoErr, "none", "")
    /\ writeFailed = FALSE

sessionVars == <<conversations, currentConvID, convList, loading, focus, err, viewportErr,
                 inflight, running, now, sec, last, writeFailed>>

\* The statement of SaveConversation that step failAt is.
FailedStatement(conv, failAt) ==
    IF failAt = NoFail THEN ""
    ELSE IF failAt = 0 THEN "begin"
    ELSE IF failAt = 1 THEN "upsert"
    ELSE IF failAt = 2 THEN "delete"
    ELSE IF failAt <= Len(conv.Messages) + 2 THEN "insert"
    ELSE "commit"

StoreSave(conv, failAt) ==
    /\ db' = SaveConversation(db, conv, failAt)
    /\ call' = [op |-> "save", id |-> conv.ID,
                conv |-> IF failAt = NoFail THEN conv ELSE NoConv,
                failed |-> FailedStatement(conv, failAt), foreignKeys |-> FALSE]
    /\ UNCHANGED sessionVars

StoreDelete(id, foreignKeys) ==
    /\ db' = DeleteConversation(db, id, foreignKeys)
    /\ call' = [op |-> "delete", id |-> id, conv |-> NoConv, failed |-> "",
                foreignKeys |-> foreignKeys]
    /\ UNCHANGED sessionVars

StoreNext ==
    \/ \E conv \in StoreConvs : \E failAt \in SaveOutcomes(conv) : StoreSave(conv, failAt)
    \/ \E id \in StoreIDs : \E foreignKeys \in BOOLEAN : StoreDelete(id, foreignKeys)

SpecStore == StoreInit /\ [][StoreNext]_vars

(***************************************************************************)
(* Properties of the store, checked under SpecStore.                       *)
(***************************************************************************)
SavedOK == call.op = "save" /\ call.failed = ""

\* Same roles and contents, in the same order.
SameMessages(a, b) ==
    /\ Len(a) = Len(b)
    /\ \A k \in 1 .. Len(a) : a[k].Role = b[k].Role /\ a[k].Content = b[k].Content

StrictlyIncreasingTimes(msgs) ==
    \A i, j \in 1 .. Len(msgs) : i < j => msgs[i].Time < msgs[j].Time

\* Every result LoadConversations can return holds conversation c once,
\* with the messages of c.
RoundTrip(store, c) ==
    \A loaded \in LoadConversations(store) :
        /\ Cardinality({i \in 1 .. Len(loaded) : loaded[i].ID = c.ID}) = 1
        /\ \A i \in 1 .. Len(loaded) :
              loaded[i].ID = c.ID => SameMessages(loaded[i].Messages, c.Messages)

\* C5, as stated: after a successful SaveConversation(c), LoadConversations
\* returns c with exactly the message list of c, in the same order, for
\* every conversation c.
C5_RoundTrip == SavedOK => RoundTrip(db, call.conv)

\* The round trip of C5 does hold for the conversations whose message
\* timestamps strictly increase along the list: what breaks it is
\* ORDER BY created_at on equal or decreasing timestamps.
C5_RoundTripIncreasingTimes ==
    (SavedOK /\ StrictlyIncreasingTimes(call.conv.Messages)) => RoundTrip(db, call.conv)

\* A conversation of two messages with increasing timestamps has been saved
\* next to the rows of another conversation.
C5_IncreasingTimesSaved ==
    /\ SavedOK
    /\ Len(call.conv.Messages) = 2
    /\ StrictlyIncreasingTimes(call.conv.Messages)
    /\ call.conv.Messages[1].Role # call.conv.Messages[2].Role
    /\ \E r \in db.conversations : r.id # call.id
    /\ Len(MessageRowsOf(db, "b")) > 0

\* C6: SaveConversation is idempotent: saving c again right after a
\* successful save of c leaves LoadConversations with the same results, one
\* record for c.ID and one row per message of c.
C6_SaveIdempotent ==
    SavedOK =>
        LET again == SaveConversation(db, call.conv, NoFail)
        IN /\ LoadConversations(again) = LoadConversations(db)
           /\ Cardinality({r \in again.conversations : r.id = call.id}) = 1
           /\ Len(MessageRowsOf(again, call.id)) = Len(call.conv.Messages)

\* A conversation with messages has been saved into a store that holds
\* another conversation too.
C6_Witness ==
    /\ SavedOK
    /\ Len(call.conv.Messages) >= 2
    /\ \E r \in db.conversations : r.id # call.id

\* C7: SaveConversation is atomic: a save that fails at any of its steps
\* (Begin, the upsert, the delete, an insert, Commit) leaves the store, and
\* so what LoadConversations returns, as it was before the call.
C7_FailedSaveChangesNothing ==
    [][(call'.op = "save" /\ call'.failed # "") => db' = db]_vars

\* The save of a conversation failed at the insert of a message, and the
\* record and the messages stored for it before are still there.
C7_Witness ==
    /\ call.op = "save"
    /\ call.failed = "insert"
    /\ \E r \in db.conversations : r.id = call.id
    /\ Len(MessageRowsOf(db, call.id)) > 0

\* C8, as stated: after DeleteConversation(id) the store holds neither the
\* record of id nor a message row of id.
C8_DeleteLeavesNoRows ==
    call.op = "delete" =>
        /\ \A r \in db.conversations : r.id # call.id
        /\ Len(MessageRowsOf(db, call.id)) = 0

(***************************************************************************)
(* Properties of the session, checked under Spec.                          *)
(***************************************************************************)
\* A step that processes a responseMsg.
ResponseStep == running /\ running' /\ Len(inflight') < Len(inflight)

IsPrefix(a, b) == Len(a) <= Len(b) /\ SubSeq(b, 1, Len(a)) = a

\* C1, as stated: a successful response to a request sent while
\* conversation A was current appends its assistant message to A and to no
\* other conversation, whatever conversation is current when it is
\* processed, and A is what a successful save then holds.
C1_ResponseAppendsToSubmitConversation ==
    [][(ResponseStep /\ last'.err = NoErr) =>
        LET a == IndexOfID(conversations, last'.convID)
        IN /\ a > 0
           /\ Len(conversations'[a].Messages) = Len(conversations[a].Messages) + 1
           /\ conversations'[a].Messages[Len(conversations'[a].Messages)].Role = "assistant"
           /\ \A j \in 1 .. Len(conversations) :
                 j # a => conversations'[j].Messages = conversations[j].Messages
           /\ last'.save = "ok" =>
                 MessageRowsOf(db', last'.convID) = RowsOf(conversations'[a])]_vars

\* C2: at most one completion request is in flight in every reachable
\* state, so a Submit received while one is pending dispatches none.
C2_AtMostOneRequest == Len(inflight) <= 1

\* Enter was pressed in the chat while a request was pending, and the one
\* request is still the only one in flight.
C2_Witness ==
    /\ last.ev = "EnterIgnored"
    /\ loading
    /\ focus = "chat"
    /\ Len(inflight) = 1

\* C3, as stated: the ids of the conversations of the registry are pairwise
\* distinct.
C3_DistinctIDs ==
    \A i, j \in 1 .. Len(conversations) :
        i # j => conversations[i].ID # conversations[j].ID

\* C4: when the registry is not empty, the current id is the id of one of
\* its conversations.
C4_ActiveIsMember ==
    Len(conversations) > 0 =>
        \E i \in 1 .. Len(conversations) : conversations[i].ID = currentConvID

\* The first of two conversations has been selected in the sidebar while the
\* second, created by Ctrl+N, was current.
C4_Witness ==
    /\ last.ev = "Select"
    /\ Len(conversations) >= 2
    /\ currentConvID = conversations[1].ID
    /\ currentConvID # conversations[2].ID

\* C9, as stated: when no save has failed, LoadConversations on the store
\* returns the conversations of the registry: the same ids, names and
\* message lists, in the same order.
C9_StoreMatchesRegistry ==
    ~writeFailed => LoadConversations(db) = {conversations}

\* C10, as stated: the message list stored for an id after a step extends
\* the one stored for it before, and every write stores the message list a
\* conversation of that id holds in memory at that moment.
C10_WritesInOrder ==
    [][/\ \A r \in db.conversations :
             IsPrefix(MessageRowsOf(db, r.id), MessageRowsOf(db', r.id))
       /\ \A r \in db'.conversations :
             (r \notin db.conversations
                \/ MessageRowsOf(db', r.id) # MessageRowsOf(db, r.id)) =>
                   \E i \in 1 .. Len(conversations') :
                      /\ conversations'[i].ID = r.id
                      /\ MessageRowsOf(db', r.id) = RowsOf(conversations'[i])]_vars

\* C11: once a conversation holds a message, no event of the session
\* changes its name: appending a further message, of the user or of the
\* assistant, leaves the name as it is.
C11_NameFixedAfterFirstMessage ==
    [][(running /\ running') =>
         \A i \in 1 .. Len(conversations) :
            (Len(conversations[i].Messages) >= 1 /\ i <= Len(conversations')) =>
                conversations'[i].Name = conversations[i].Name]_vars

\* A conversation holds two messages of the user, named after the first,
\* and the second would give another title.
C11_Witness ==
    \E i \in 1 .. Len(conversations) :
        /\ Len(conversations[i].Messages) >= 2
        /\ conversations[i].Messages[1].Role = "user"
        /\ conversations[i].Messages[2].Role = "user"
        /\ conversations[i].Name = DeriveTitle(conversations[i].Messages[1].Content)
        /\ DeriveTitle(conversations[i].Messages[2].Content) # conversations[i].Name

\* C12, as stated: in every reachable state, every conversation that holds
\* a message is named after its first message: its name is the content of
\* that message, truncated as a title.
C12_NamedAfterFirstMessage ==
    \A i \in 1 .. Len(conversations) :
        Len(conversations[i].Messages) >= 1 =>
            conversations[i].Name = DeriveTitle(conversations[i].Messages[1].Content)

(***************************************************************************)
(* The title derivation applied to bounded inputs: messages of every       *)
(* length around the threshold, with and without a two-byte rune, typed    *)
(* with and without white space around them, appended to one conversation. *)
(***************************************************************************)
TitleInputMax == 32   \* characters of the longest message
TitleMsgs == 2        \* messages appended to the conversation

TitleAlphabet == "abcdefghijklmnopqrstuvwxyz0123456789"

TitleBodies ==
    {SubSeq(TitleAlphabet, 1, n) : n \in (TitleKeep - 1) .. TitleInputMax}
    \cup {"~" \o SubSeq(TitleAlphabet, 2, n) : n \in (TitleKeep - 1) .. TitleInputMax}
    \cup {SubSeq(TitleAlphabet, 1, n - 1) \o "~" : n \in (TitleKeep - 1) .. TitleInputMax}

TitleInputs == {lead \o body \o trail : lead \in {"", " "}, body \in TitleBodies, trail \in {"", "\n"}}

TitleInit ==
    /\ conversations = <<newConversation("New Chat", 0, 0)>>
    /\ currentConvID = "conv_0"
    /\ convList = [items |-> <<"conv_0">>, cursor |-> 1]
    /\ loading = FALSE
    /\ focus = "chat"
    /\ err = NoErr
    /\ viewportErr = NoErr
    /\ inflight = <<>>
    /\ running = TRUE
    /\ db = EmptyStore
    /\ now = 1
    /\ sec = 0
    /\ last = Event("Start", NoErr, "none", "conv_0")
    /\ writeFailed = FALSE
    /\ call = NoCall

\* The user message of the send branch, appended to the conversation.
TitleAppend(input) ==
    /\ TrimSpace(input) # ""
    /\ Len(conversations[1].Messages) < TitleMsgs
    /\ conversations' = AppendUser(conversations, 1,
                             [Role |-> "user", Content |-> TrimSpace(input), Time |-> now])
    /\ now' = now + 1
    /\ UNCHANGED <<currentConvID, convList, loading, focus, err, viewportErr, inflight,
                   running, db, sec, last, writeFailed, call>>

TitleNext == \E input \in TitleInputs : TitleAppend(input)

SpecTitle == TitleInit /\ [][TitleNext]_vars

\* C13: the title of a conversation whose first message is longer than the
\* threshold, counted in characters, is the first characters of the message
\* up to the truncation length followed by the ellipsis "..."; the title of
\* a conversation whose first message is not longer is the message.
C13_TitleTruncation ==
    \A i \in 1 .. Len(conversations) :
        Len(conversations[i].Messages) >= 1 =>
            LET content == conversations[i].Messages[1].Content
                title == conversations[i].Name
            IN IF Len(content) > TitleMax
               THEN /\ Len(title) = TitleKeep + 3
                    /\ SubSeq(title, 1, TitleKeep) = SubSeq(content, 1, TitleKeep)
                    /\ SubSeq(title, TitleKeep + 1, TitleKeep + 3) = "..."
               ELSE title = content

\* The first message is longer than the threshold and holds a two-byte
\* rune, and the title is cut.
C13_Witness ==
    /\ Len(conversations[1].Messages) >= 1
    /\ Len(conversations[1].Messages[1].Content) > TitleMax
    /\ ByteLen(conversations[1].Messages[1].Content) > Len(conversations[1].Messages[1].Content)
    /\ Len(conversations[1].Name) = TitleMax

\* C14: processing a response that carries an error (the provider call
\* failed, or it returned no choice) appends no message, writes nothing to
\* the store, leaves every conversation as it was (messages and name), and
\* the error is the one the viewport then shows.
C14_FailedResponseAppendsNothing ==
    [][(ResponseStep /\ last'.err # NoErr) =>
         /\ conversations' = conversations
         /\ db' = db
         /\ viewportErr' = last'.err]_vars

\* The response with no choice was processed for a request of a
\* conversation that holds the user's message, stored.
C14_Witness ==
    /\ running
    /\ last.ev = "Response"
    /\ last.err = "no response from API"
    /\ viewportErr = "no response from API"
    /\ ~loading
    /\ \E i \in 1 .. Len(conversations) :
          /\ conversations[i].ID = last.convID
          /\ Len(conversations[i].Messages) = 1
          /\ MessageRowsOf(db, last.convID) = RowsOf(conversations[i])

\* A step of Ctrl+N, of a send or of a response: the events that can record
\* an error.
EventStep ==
    /\ running /\ running'
    /\ Len(conversations') # Len(conversations) \/ Len(inflight') # Len(inflight)

\* The error that the event described by l recorded, NoErr when it recorded none.
Recorded(l) ==
    IF l.err # NoErr THEN l.err
    ELSE IF l.save = "failed" THEN "failed to save conversation"
    ELSE NoErr

\* C15: an error recorded while an event is processed (the error of the
\* provider, or the error of the save) is shown by the render of that same
\* event and cleared by it: after every event m.err is unset, the viewport
\* of an event shows the error this event recorded and no other, and every
\* other render shows none.
C15_ErrorShownOnce ==
    [][(running /\ running') =>
         /\ err' = NoErr
         /\ EventStep => viewportErr' = Recorded(last')
         /\ ~EventStep => viewportErr' \in {viewportErr, NoErr}]_vars

\* The save of a send failed: the viewport shows the error and m.err is
\* cleared, with a request in flight.
C15_Witness ==
    /\ running
    /\ last.ev = "Submit"
    /\ last.save = "failed"
    /\ viewportErr = "failed to save conversation"
    /\ err = NoErr
    /\ Len(inflight) = 1

\* C16: a save that fails neither rolls back nor blocks the session.  In a
\* step whose save failed the store is as before and the change in memory
\* is kept: Ctrl+N has appended the new conversation and made it current; a
\* send has appended the user's message to the current conversation, set
\* loading and put its request in flight; a response has appended the
\* assistant's message and cleared loading.
C16_FailedSaveKeepsMemory ==
    [][(EventStep /\ last'.save = "failed") =>
         /\ db' = db
         /\ last'.ev = "CtrlN" =>
               /\ Len(conversations') = Len(conversations) + 1
               /\ SubSeq(conversations', 1, Len(conversations)) = conversations
               /\ currentConvID' = conversations'[Len(conversations')].ID
               /\ focus' = "chat"
         /\ last'.ev = "Submit" =>
               LET i == IndexOfID(conversations, currentConvID)
               IN /\ Len(conversations') = Len(conversations)
                  /\ Len(conversations'[i].Messages) = Len(conversations[i].Messages) + 1
                  /\ conversations'[i].Messages[Len(conversations'[i].Messages)].Role = "user"
                  /\ Len(conversations[i].Messages) = 0 =>
                        conversations'[i].Name # conversations[i].Name
                  /\ loading'
                  /\ Len(inflight') = Len(inflight) + 1
         /\ last'.ev = "Response" =>
               LET i == IndexOfID(conversations, currentConvID)
               IN /\ Len(conversations') = Len(conversations)
                  /\ Len(conversations'[i].Messages) = Len(conversations[i].Messages) + 1
                  /\ conversations'[i].Messages[Len(conversations'[i].Messages)].Role
                        = "assistant"
                  /\ ~loading']_vars

\* The save of a send failed: the store holds no message, the
\* conversation holds the user's message under its derived title, and the
\* request is in flight.
C16_Witness ==
    /\ running
    /\ last.ev = "Submit"
    /\ last.save = "failed"
    /\ db.messages = <<>>
    /\ loading
    /\ Len(inflight) = 1
    /\ \E i \in 1 .. Len(conversations) :
          /\ conversations[i].ID = currentConvID
          /\ Len(conversations[i].Messages) = 1
          /\ conversations[i].Name = DeriveTitle(conversations[i].Messages[1].Content)

\* The index of the conversation that the event of a step saved: the new
\* conversation of Ctrl+N, the current conversation of a send or a response.
SavedIndex ==
    IF last'.ev = "CtrlN" THEN Len(conversations')
    ELSE IndexOfID(conversations', currentConvID')

\* C17: a save that succeeds writes the whole conversation as it is in
\* memory, whatever saves of it failed before: the record stored for its id
\* is its record, and the messages stored for its id are its complete
\* message list, the messages whose own save failed included.
C17_SaveWritesAccumulatedState ==
    [][(EventStep /\ last'.save = "ok") =>
         /\ SavedIndex > 0
         /\ ConvRow(conversations'[SavedIndex]) \in db'.conversations
         /\ MessageRowsOf(db', conversations'[SavedIndex].ID)
               = RowsOf(conversations'[SavedIndex])]_vars

\* The save of a response succeeded for a conversation whose user message
\* the store did not hold, its own save having failed: the store now holds
\* both messages.
C17_Witness ==
    /\ running
    /\ last.ev = "Response"
    /\ last.save = "ok"
    /\ last.stale
    /\ \E i \in 1 .. Len(conversations) :
          /\ conversations[i].ID = currentConvID
          /\ Len(conversations[i].Messages) = 2
          /\ MessageRowsOf(db, currentConvID) = RowsOf(conversations[i])

\* C18, as stated: while the request of conversation A is pending, the send
\* branch is open for a non-blank input when another conversation B of the
\* registry is current and the chat is focused.
C18_PendingDoesNotBlockOther ==
    (/\ running
     /\ focus = "chat"
     /\ IndexOfID(conversations, currentConvID) > 0
     /\ \E k \in 1 .. Len(inflight) : inflight[k].convID # currentConvID)
        => \A input \in Inputs : TrimSpace(input) # "" => CanSubmit(input)

\* C18, amended: a pending request blocks sending in every conversation.
\* While a request is in flight the send branch is closed for every input,
\* whichever conversation is current, and no step puts a second request in
\* flight or appends a message of the user to any conversation.
C18_PendingBlocksEveryConversation ==
    [][(running /\ running' /\ Len(inflight) > 0) =>
         /\ \A input \in Inputs : ~CanSubmit(input)
         /\ Len(inflight') <= Len(inflight)
         /\ \A i \in 1 .. Len(conversations) :
               \/ conversations'[i].Messages = conversations[i].Messages
               \/ /\ ResponseStep
                  /\ conversations'[i].Messages[Len(conversations'[i].Messages)].Role
                        = "assistant"]_vars

\* Enter was pressed on a non-blank input with the chat focused and
\* conversation B current while the request of conversation A was pending:
\* nothing was sent and B holds no message.
C18_Witness ==
    /\ running
    /\ last.ev = "EnterIgnored"
    /\ focus = "chat"
    /\ Len(inflight) = 1
    /\ inflight[1].convID # currentConvID
    /\ \E i \in 1 .. Len(conversations) :
          /\ conversations[i].ID = currentConvID
          /\ conversations[i].Messages = <<>>

\* The request that carries the messages of a conversation as they are: the
\* system message, then each message with its role and content.
RequestOf(conv) ==
    <<[Role |-> "system", Content |-> SystemPrompt]>>
        \o [k \in 1 .. Len(conv.Messages) |->
              [Role |-> conv.Messages[k].Role, Content |-> conv.Messages[k].Content]]

\* C19: the request of a send is bound to the conversation that is current
\* when it is sent and carries the messages of that conversation, the new
\* one included; while it is in flight no event (Tab, Select, Ctrl+N, Enter)
\* changes it, and the conversation it reads still holds exactly the
\* messages it carries, so that it sends the same history whenever the
\* command runs.
C19_RequestBoundAtSubmit ==
    [][(running /\ running') =>
         /\ Len(inflight') > Len(inflight) =>
               LET r == inflight'[Len(inflight')]
                   i == IndexOfID(conversations', currentConvID)
               IN /\ r.convID = currentConvID
                  /\ i > 0
                  /\ r.messages = RequestOf(conversations'[i])
                  /\ r.messages[Len(r.messages)].Role = "user"
         /\ Len(inflight') >= Len(inflight) =>
               \A k \in 1 .. Len(inflight) :
                  /\ inflight'[k] = inflight[k]
                  /\ inflight[k].messages
                       = RequestOf(conversations'[IndexOfID(conversations', inflight[k].convID)])]_vars

\* The request of a conversation that holds the user's message is in
\* flight, and Ctrl+N has made another conversation current.
C19_Witness ==
    /\ running
    /\ last.ev = "CtrlN"
    /\ Len(inflight) = 1
    /\ inflight[1].convID # currentConvID
    /\ Len(inflight[1].messages) = 2
    /\ inflight[1].messages[2].Role = "user"

\* What a step leaves of the session and of the store.
SessionAndStore ==
    <<conversations, currentConvID, convList, loading, focus, err, viewportErr,
      inflight, db>>

\* C20: Quit is terminal.  Once the loop has ended no event changes the
\* session or the store, so the response of a request that was pending is
\* appended nowhere and saved nowhere; and the session that the next start
\* builds from the store is idle, with no request pending, and holds the
\* conversations of the store (or the default conversation when the store
\* holds none).
C20_QuitIsTerminal ==
    [][/\ (~running /\ ~running') => UNCHANGED SessionAndStore
       /\ (~running /\ running') =>
             /\ ~loading'
             /\ inflight' = <<>>
             /\ \/ conversations' \in LoadConversations(db) /\ db' = db
                \/ /\ LoadConversations(db) = {<<>>}
                   /\ Len(conversations') = 1
                   /\ conversations'[1].Messages = <<>>]_vars

\* The loop has ended while a request was pending.
C20_Witness ==
    /\ ~running
    /\ loading
    /\ Len(inflight) = 1
    /\ \E i \in 1 .. Len(conversations) : Len(conversations[i].Messages) = 1

NewConversationStep ==
    running /\ running' /\ Len(conversations') = Len(conversations) + 1

\* C22, as stated: Ctrl+N, whatever the focus and whether or not a request
\* is pending, adds exactly one conversation without messages after the
\* existing ones, which keep their order; that conversation is the current
\* one afterwards; a successful save stores it; the focus is the chat and
\* the loading flag is the one before.
C22_NewConversation ==
    [][NewConversationStep =>
        LET n == Len(conversations')
            c == conversations'[n]
        IN /\ \A i \in 1 .. n - 1 : conversations'[i].ID = conversations[i].ID
           /\ c.Messages = <<>>
           /\ currentConvID' = c.ID
           /\ getCurrentConversation(conversations', currentConvID') = n
           /\ last'.save = "ok" =>
                 /\ ConvRow(c) \in db'.conversations
                 /\ MessageRowsOf(db', c.ID) = <<>>
           /\ focus' = "chat"
           /\ loading' = loading]_vars

\* A step that sets the loading flag: the send branch of Enter.
SubmitStep == running /\ running' /\ ~loading /\ loading'

\* The contents a message typed in the input box can be sent with.
SentContents == {TrimSpace(input) : input \in Inputs} \ {""}

\* C23: a send happens with the chat focused and no request pending; it
\* appends exactly one user message, holding the trimmed input, at the end of
\* the current conversation and changes the messages of no other; a
\* successful save stores that conversation; the loading flag is set, the
\* input box is emptied and exactly one request is dispatched.
C23_SubmitEffect ==
    [][SubmitStep =>
        LET i == getCurrentConversation(conversations, currentConvID)
            n == Len(conversations[i].Messages)
        IN /\ focus = "chat"
           /\ i > 0
           /\ Len(conversations') = Len(conversations)
           /\ Len(conversations'[i].Messages) = n + 1
           /\ SubSeq(conversations'[i].Messages, 1, n) = conversations[i].Messages
           /\ conversations'[i].Messages[n + 1].Role = "user"
           /\ conversations'[i].Messages[n + 1].Content \in SentContents
           /\ \A j \in 1 .. Len(conversations) :
                 j # i => conversations'[j] = conversations[j]
           /\ last'.save = "ok" =>
                 /\ ConvRow(conversations'[i]) \in db'.conversations
                 /\ MessageRowsOf(db', currentConvID) = RowsOf(conversations'[i])
           /\ last'.cleared
           /\ Len(inflight') = Len(inflight) + 1
           /\ currentConvID' = currentConvID]_vars

\* A message was sent and saved in one of two conversations of different
\* ids, and the request is in flight.
C23_Witness ==
    /\ last.ev = "Submit"
    /\ last.save = "ok"
    /\ last.cleared
    /\ loading
    /\ Len(inflight) = 1
    /\ Len(conversations) = 2
    /\ conversations[1].ID # conversations[2].ID
    /\ \E i \in 1 .. 2 :
          /\ conversations[i].ID = currentConvID
          /\ Len(conversations[i].Messages) = 1
          /\ conversations[3 - i].Messages = <<>>

\* The row stored for an id, as a set: empty when there is none.
ConvRowsOf(store, id) == {r \in store.conversations : r.id = id}

\* C24, as stated: Ctrl+N overwrites nothing.  Every conversation that
\* existed before it keeps its name and its messages in memory, and its
\* stored row and stored messages are the ones before.
C24_NewConversationOverwritesNothing ==
    [][NewConversationStep =>
        \A i \in 1 .. Len(conversations) :
            /\ conversations'[i].Name = conversations[i].Name
            /\ conversations'[i].Messages = conversations[i].Messages
            /\ ConvRowsOf(db', conversations[i].ID) = ConvRowsOf(db, conversations[i].ID)
            /\ MessageRowsOf(db', conversations[i].ID)
                   = MessageRowsOf(db, conversations[i].ID)]_vars

\* A step of Enter in the sidebar, told from Tab by the event it records.
SelectStep ==
    /\ running /\ running'
    /\ focus = "sidebar"
    /\ last'.ev = "Select"
    /\ last' # last

\* C25: Enter in the sidebar makes the highlighted entry the current
\* conversation and focuses the chat, and nothing else: the store, the names
\* and messages of all conversations, the loading flag and the request in
\* flight are the ones before.
C25_SelectChangesNothingElse ==
    [][SelectStep =>
        /\ convList.cursor \in 1 .. Len(convList.items)
        /\ currentConvID' = conversations[convList.cursor].ID
        /\ focus' = "chat"
        /\ db' = db
        /\ conversations' = conversations
        /\ loading' = loading
        /\ inflight' = inflight]_vars

\* While a request of one conversation is pending, another conversation has
\* been selected in the sidebar.
C25_Witness ==
    /\ last.ev = "Select"
    /\ focus = "chat"
    /\ loading
    /\ Len(inflight) = 1
    /\ inflight[1].convID # currentConvID
    /\ last.convID = currentConvID

\* A step that moves the focus and records no event: Tab, or Enter in the
\* sidebar on the conversation the last event selected.
TabStep ==
    /\ running /\ running'
    /\ focus' # focus
    /\ last' = last
    /\ Len(conversations') = Len(conversations)

\* C26: Tab is handled in every state of the running session and moves the
\* focus to the other of the two panes, so that two of them in a row restore
\* it; the conversations, the current id, the loading flag, the request in
\* flight and the store are the ones before.
C26_TabTogglesFocusOnly ==
    /\ [](running => ENABLED Tab)
    /\ [][TabStep =>
            /\ focus \in {"chat", "sidebar"}
            /\ focus' = IF focus = "chat" THEN "sidebar" ELSE "chat"
            /\ conversations' = conversations
            /\ currentConvID' = currentConvID
            /\ loading' = loading
            /\ inflight' = inflight
            /\ db' = db]_vars

\* The focus was moved to the sidebar while the request of the last send
\* was pending, and the request is still in flight.
C26_Witness ==
    /\ running
    /\ last.ev = "Submit"
    /\ focus = "sidebar"
    /\ loading
    /\ Len(inflight) = 1

\* A step of Enter in the chat that sends nothing and is the first of its
\* kind since the last event (a second one in a row changes nothing at all).
IgnoredStep ==
    /\ running /\ running'
    /\ last'.ev \in {"EnterIgnored", "EnterBlank"}
    /\ last' # last

\* The user messages of a conversation.
UserMessages(conv) ==
    LET IsUser(m) == m.Role = "user"
    IN SelectSeq(conv.Messages, IsUser)

\* C27: Enter in the chat while a request is pending or the input is blank
\* is dropped.  The step happens in the chat with the flag set or a blank
\* input, and leaves conversations (messages and names), store, requests in
\* flight, current id, focus and loading flag as they were; and the
\* response processed later sends nothing in its place: it adds no user
\* message and dispatches no request.
C27_IgnoredSubmitDropped ==
    /\ [][IgnoredStep =>
            /\ focus = "chat"
            /\ loading \/ last'.ev = "EnterBlank"
            /\ conversations' = conversations
            /\ db' = db
            /\ inflight' = inflight
            /\ currentConvID' = currentConvID
            /\ focus' = focus
            /\ loading' = loading]_vars
    /\ [][ResponseStep =>
            /\ Len(inflight') = Len(inflight) - 1
            /\ ~loading'
            /\ \A i \in 1 .. Len(conversations) :
                  UserMessages(conversations'[i]) = UserMessages(conversations[i])]_vars

\* Enter was pressed in the chat on a blank input while a request was
\* pending.
C27_Witness ==
    /\ last.ev = "EnterBlank"
    /\ focus = "chat"
    /\ loading
    /\ Len(inflight) = 1

\* C29: while the session runs, the loading flag set by a send is cleared
\* by one step only, the processing of the response to the request that
\* send dispatched: Tab, Enter in the sidebar, Ctrl+N and a refused Enter
\* leave it set, and no other step (no timeout, no cancellation) clears it.
C29_PendingUntilResponse ==
    [][(running /\ running' /\ loading /\ ~loading') =>
        /\ Len(inflight) = 1
        /\ inflight' = <<>>
        /\ last'.ev = "Response"
        /\ last'.convID = inflight[1].convID]_vars

\* Ctrl+N was pressed while a request was pending: the flag is still set
\* and the request still in flight.
C29_Witness ==
    /\ running
    /\ last.ev = "CtrlN"
    /\ loading
    /\ Len(inflight) = 1
    /\ focus = "chat"

(***************************************************************************)
(* Progress.  A command runs in its own goroutine and its message is       *)
(* delivered to Update when the call to the provider returns: under the    *)
(* assumption that every call returns, a response that stays deliverable   *)
(* is eventually processed.                                                *)
(***************************************************************************)
Respond == \E k \in 1 .. Len(inflight), msg \in ResponseMsgs : Response(k, msg)

\* The clock readings of the sessions checked for progress.
LiveMaxNow == 2

LiveNext == Next /\ now' <= LiveMaxNow

SpecLive == Init /\ [][LiveNext]_vars /\ WF_vars(Respond)

RequestMaxLen == 2    \* messages of the conversation before the send

RequestRoles == {"user", "assistant", "system"}

RequestContents == {"hi", "ok"}

RequestHistories ==
    UNION {[1 .. n -> [Role : RequestRoles, Content : RequestContents]] :
             n \in 0 .. RequestMaxLen}

RequestInit ==
    /\ \E h \in RequestHistories :
          /\ conversations =
                <<[ID |-> "conv_0", Name |-> "New Chat", Created |-> 0,
                   Messages |-> [k \in 1 .. Len(h) |->
                                   [Role |-> h[k].Role, Content |-> h[k].Content, Time |-> k]]]>>
          /\ now = Len(h) + 1
    /\ currentConvID = "conv_0"
    /\ convList = [items |-> <<"conv_0">>, cursor |-> 1]
    /\ loading = FALSE
    /\ focus = "chat"
    /\ err = NoErr
    /\ viewportErr = NoErr
    /\ inflight = <<>>
    /\ running = TRUE
    /\ db = EmptyStore
    /\ sec = 0
    /\ last = Event("Start", NoErr, "none", "conv_0")
    /\ writeFailed = FALSE
    /\ call = NoCall

\* The send branch without its save: the user message is appended and the
\* command is built from the model that holds it.
RequestSend(input) ==
    /\ CanSubmit(input)
    /\ conversations' = AppendUser(conversations, 1,
                             [Role |-> "user", Content |-> TrimSpace(input), Time |-> now])
    /\ loading' = TRUE
    /\ inflight' = Append(inflight, sendMessage(conversations', currentConvID))
    /\ last' = Event("Submit", NoErr, "none", currentConvID)
    /\ now' = now + 1
    /\ UNCHANGED <<currentConvID, convList, focus, err, viewportErr, running, db, sec,
                   writeFailed, call>>

RequestNext == \E input \in Inputs : RequestSend(input)

SpecRequest == RequestInit /\ [][RequestNext]_vars

\* C30: the request built for a conversation of n messages has n + 1
\* entries: the system message first and nowhere else, then the messages in
\* their order with their contents, a stored role "user" as the provider's
\* user role and every other stored role as its assistant role; the last
\* entry of a request that a send dispatched is the user message just sent.
C30_RequestShape ==
    \A r \in 1 .. Len(inflight) :
        LET req == inflight[r].messages
            msgs == conversations[1].Messages
            n == Len(msgs)
        IN /\ Len(req) = n + 1
           /\ req[1] = [Role |-> "system", Content |-> SystemPrompt]
           /\ \A k \in 1 .. n :
                 /\ req[k + 1].Content = msgs[k].Content
                 /\ msgs[k].Role = "user" => req[k + 1].Role = "user"
                 /\ msgs[k].Role # "user" => req[k + 1].Role = "assistant"
           /\ n >= 1
           /\ req[n + 1] = [Role |-> "user", Content |-> msgs[n].Content]
           /\ msgs[n].Content \in SentContents

\* A request was built for a conversation that held a message of a role
\* other than user and assistant, a user message and the message just sent.
C30_Witness ==
    /\ Len(inflight) = 1
    /\ Len(conversations[1].Messages) = 3
    /\ conversations[1].Messages[1].Role = "system"
    /\ conversations[1].Messages[2].Role = "user"
    /\ Len(inflight[1].messages) = 4

(***************************************************************************)
(* Invariants of the whole session, checked under Spec.                    *)
(***************************************************************************)
\* C31: in memory the messages are append-only.  Every step of the running
\* session keeps every conversation at its place in the registry, with a
\* message list that is the one before or the one before with exactly one
\* message added at the end; none is removed, reordered or modified, and no
\* conversation leaves the registry.
C31_MessagesAppendOnly ==
    [][(running /\ running') =>
        /\ Len(conversations') >= Len(conversations)
        /\ \A i \in 1 .. Len(conversations) :
              LET before == conversations[i].Messages
                  after == conversations'[i].Messages
              IN /\ conversations'[i].ID = conversations[i].ID
                 /\ Len(after) \in {Len(before), Len(before) + 1}
                 /\ SubSeq(after, 1, Len(before)) = before]_vars

\* A reply has been appended after the user message of a conversation.
C31_Witness ==
    /\ running
    /\ \E i \in 1 .. Len(conversations) :
          /\ Len(conversations[i].Messages) = 2
          /\ conversations[i].Messages[1].Role = "user"
          /\ conversations[i].Messages[2].Role = "assistant"

\* C32: in every state of the running session the loading flag is set
\* exactly when one request has been dispatched whose response has not been
\* processed, and it is clear exactly when none has; so a response is never
\* processed with the flag clear.
C32_PendingIffOneRequest ==
    running =>
        /\ loading <=> Len(inflight) = 1
        /\ ~loading <=> inflight = <<>>

\* A second request is in flight, the response to the first having been
\* processed.
C32_Witness ==
    /\ running
    /\ loading
    /\ Len(inflight) = 1
    /\ \E i \in 1 .. Len(conversations) :
          /\ conversations[i].ID = inflight[1].convID
          /\ Len(UserMessages(conversations[i])) = 2

\* What a process that starts on the store content `prior` begins with:
\* store, conversations, current id, focus, loading flag, requests in
\* flight and the record l of the start.
StartOK(prior, store, convs, id, f, ld, infl, l) ==
    /\ Len(convs) >= 1
    /\ id = convs[1].ID
    /\ f = "chat"
    /\ ~ld
    /\ infl = <<>>
    /\ IF prior.conversations = {}
       THEN /\ Len(convs) = 1
            /\ convs[1].Name = "New Chat"
            /\ convs[1].Messages = <<>>
            /\ l.save = "ok" => store.conversations = {ConvRow(convs[1])}
            /\ l.save # "ok" => store = prior
       ELSE /\ store = prior
            /\ Len(convs) = Cardinality(prior.conversations)
            /\ {ConvRow(convs[i]) : i \in 1 .. Len(convs)} = prior.conversations
            /\ \A i \in 1 .. Len(convs) : convs[1].Created <= convs[i].Created

\* C33: a session never starts with an empty registry.  On a store without
\* conversations exactly one conversation named "New Chat", without
\* messages, is created, and a save that succeeds stores it; otherwise the
\* conversations are the stored ones.  In every case the current
\* conversation is the first one, the oldest by creation time, the focus is
\* the chat, the loading flag is clear and no request is in flight.  It
\* holds of the first start and of every later start.
C33_StartNeverEmpty ==
    /\ StartOK(EmptyStore, db, conversations, currentConvID, focus, loading, inflight, last)
    /\ [][(~running /\ running') =>
            StartOK(db, db', conversations', currentConvID', focus', loading', inflight',
                    last')]_vars

\* A process has started on a store that held two conversations.
C33_Witness ==
    /\ running
    /\ last.ev = "Start"
    /\ last.save = "none"
    /\ Len(conversations) = 2
    /\ currentConvID = conversations[1].ID
    /\ conversations[1].ID # conversations[2].ID
    /\ ~loading

====
